---- MODULE Spec2Model ----
(***************************************************************************)
(* Model of src/app.py, the WHILL EU asset management application: the     *)
(* depreciation calculator (calc_depreciation) and the request handlers    *)
(* that change the assets, location_history and sales_disposal tables.     *)
(*                                                                         *)
(* Each handler is one action: a request runs to completion (section 5 of  *)
(* the specification).  The session is a signed cookie the request brings  *)
(* along, so the session user is an input of the request.  Money is kept   *)
(* in cents.  A TEXT column that holds a date is a record [kind, y, m, d]: *)
(* kind "null" is SQL NULL, "empty" the empty string, "iso" a YYYY-MM-DD   *)
(* string.  Columns no handler reads back (serial_number, asset_name,      *)
(* asset_type, model, currency, responsible, country, customer,            *)
(* shipped_by, buyer, invoice_ref, created_by, created_at, updated_at)     *)
(* are left out.  emails is the log of the messages send_approval_email    *)
(* hands to the mail server; response is the outcome of the last request.  *)
(*                                                                         *)
(* execute commits every statement on a connection of its own, so a        *)
(* handler with several statements can be overtaken between two of them.   *)
(* requests holds the handlers that are between two statements, each with  *)
(* its local variables and the statement it runs next; it stays empty      *)
(* where the handlers run to completion.  smtp_up tells whether the mail   *)
(* server takes a message; when it does not, smtplib raises inside         *)
(* send_approval_email, which prints the exception and returns.  page is   *)
(* what asset_detail rendered last: the asset's row together with its      *)
(* depreciation figures, or nothing before the first rendering.            *)
(*                                                                         *)
(* Spec is the whole application.  SpecAssets, SpecSales and SpecApproval  *)
(* run the same handlers for a part of the requests each, which keeps      *)
(* their state spaces small enough to explore in full.                     *)
(***************************************************************************)
EXTENDS Integers, Sequences, FiniteSets, TLC

VARIABLES today, assets, location_history, sales_disposal, emails, response, requests, smtp_up,
          page

vars == <<today, assets, location_history, sales_disposal, emails, response, requests, smtp_up, page>>

\* the three tables and the notifier's log: everything a handler can change
db == <<assets, location_history, sales_disposal, emails>>

-----------------------------------------------------------------------------
\* Bounds of the model
MaxLoc == 2        \* rows of location_history
MaxTx == 1         \* rows of sales_disposal
MaxEmails == 2     \* calls of send_approval_email
MaxMonth == 1      \* months the clock advances
MaxNotes == 1      \* rejection prefixes in an asset's notes
MaxInFlight == 2   \* handlers between two statements

-----------------------------------------------------------------------------
\* Configuration
NoUser == "-"                      \* a session without "user"
USERS == {"Minami", "Sachiko", "Yuki", "Lo", "Other"}
APPROVERS == {"Yuki", "Lo"}
TX_TYPES == {"Sale", "Disposal", "Write-Off"}
EMAIL_ENABLED == TRUE              \* the deployment sends mail

\* TEXT values that hold dates
NULL == [kind |-> "null", y |-> 0, m |-> 0, d |-> 0]
Empty == [kind |-> "empty", y |-> 0, m |-> 0, d |-> 0]
Iso(y, m, d) == [kind |-> "iso", y |-> y, m |-> m, d |-> d]

-----------------------------------------------------------------------------
\* Depreciation

RECURSIVE Pow(_, _)
Pow(b, e) == IF e = 0 THEN 1 ELSE b * Pow(b, e - 1)

Max(a, b) == IF a >= b THEN a ELSE b
Min(a, b) == IF a <= b THEN a ELSE b

\* round(x, 2) of x = num/den cents (num >= 0, den > 0): to the nearest cent, a
\* tie to even, which is what round does with a tie the float holds exactly
Round2(num, den) ==
    LET q == num \div den
        r == num % den
    IN  IF 2 * r < den THEN q
        ELSE IF 2 * r > den THEN q + 1
        ELSE IF q % 2 = 0 THEN q ELSE q + 1

IsLeap(y) == (y % 4 = 0 /\ y % 100 # 0) \/ y % 400 = 0

DaysInMonth(y, m) ==
    IF m = 2 THEN (IF IsLeap(y) THEN 29 ELSE 28)
    ELSE IF m \in {4, 6, 9, 11} THEN 30 ELSE 31

\* datetime.date.fromisoformat succeeds
fromisoformat_ok(t) ==
    /\ t.kind = "iso"
    /\ t.y \in 1..9999
    /\ t.m \in 1..12
    /\ t.d \in 1..DaysInMonth(t.y, t.m)

ZeroSnapshot_written_off(pv) ==
    [monthly |-> 0, accumulated |-> 0, book_value |-> 0, months_elapsed |-> 0, fully_dep |-> FALSE]

ZeroSnapshot(pv) ==
    [monthly |-> 0, accumulated |-> 0, book_value |-> pv, months_elapsed |-> 0, fully_dep |-> FALSE]

DefaultLife == 60

months_elapsed_by_day(start, now) ==
    Max(0, (now.y - start.y) * 12 + (now.m - start.m) - (IF now.d < start.d THEN 1 ELSE 0))

\* whole calendar months from start to now, the days of the month left aside
months_elapsed(start, now) == Max(0, (now.y - start.y) * 12 + (now.m - start.m))

straight_line_unclamped(pv, life, months) ==
    LET accN == pv * months
        bookN == Max(0, pv * life - accN)
    IN  [monthly |-> Round2(pv, life), accumulated |-> Round2(accN, life),
         book_value |-> Round2(bookN, life)]

\* monthly = pv/life; accumulated = min(pv, monthly*months);
\* book_value = max(0.0, pv-accumulated), all over the denominator life
straight_line(pv, life, months) ==
    LET accN == Min(pv * life, pv * months)
        bookN == Max(0, pv * life - accN)
    IN  [monthly |-> Round2(pv, life), accumulated |-> Round2(accN, life),
         book_value |-> Round2(bookN, life)]

\* the rate of a year taken every month: mr = 2/life
declining_balance_yearly(pv, life, months) ==
    LET den == life
        num == life - 2
        bookN == pv * Pow(num, months)
        bookD == Pow(den, months)
    IN  [monthly |-> Round2(2 * bookN, bookD * den),
         accumulated |-> Round2(pv * bookD - bookN, bookD),
         book_value |-> Round2(bookN, bookD)]

\* mr = (2/life)/12 = 1/(6*life); 1-mr = (6*life-1)/(6*life);
\* book_value = pv*((1-mr)**months) = bookN/bookD
declining_balance(pv, life, months) ==
    LET den == 6 * life
        num == 6 * life - 1
        bookN == pv * Pow(num, months)
        bookD == Pow(den, months)
    IN  [monthly |-> Round2(bookN, bookD * den),
         accumulated |-> Round2(pv * bookD - bookN, bookD),
         book_value |-> Round2(bookN, bookD)]

calc_depreciation(asset, now) ==
    LET pv   == asset.purchase_value
        pd   == asset.purchase_date
        meth == asset.dep_method
        life == IF asset.useful_life_months = 0 THEN DefaultLife ELSE asset.useful_life_months
    IN  IF pd.kind \in {"null", "empty"} \/ pv = 0 \/ meth = "None" THEN ZeroSnapshot(pv)
        ELSE IF ~fromisoformat_ok(pd) THEN ZeroSnapshot(pv)
        ELSE
          LET months == months_elapsed(pd, now)
              amounts == IF meth = "Straight-Line" THEN straight_line(pv, life, months)
                         ELSE IF meth = "Declining Balance" THEN declining_balance(pv, life, months)
                         ELSE [monthly |-> 0, accumulated |-> 0, book_value |-> pv]
          IN  [monthly |-> amounts.monthly, accumulated |-> amounts.accumulated,
               book_value |-> amounts.book_value, months_elapsed |-> months,
               fully_dep |-> months >= life]

-----------------------------------------------------------------------------
\* Inputs of the requests

Epoch == Iso(2023, 12, 5)          \* the clock when the application starts
D0 == Iso(2023, 11, 20)            \* a purchase date
D1 == Iso(2023, 12, 10)            \* relocation dates
D2 == Iso(2024, 1, 15)

\* what the session cookie of a request can hold: no user, a user, an approver
Sessions == {NoUser, "Minami", "Yuki"}
LoggedIn == Sessions \ {NoUser}
AssetIds == {"DU-001", "DU-002"}
UnknownAsset == "DU-404"
Actions == {"approve", "reject"}
Reasons == {"duplicate"}

\* a row as _seed inserts them, with a smaller amount and a shorter life: an
\* approved asset without any location_history row
SeedAssets ==
    << [asset_id |-> "DU-001", purchase_date |-> D0, purchase_value |-> 10000,
        dep_method |-> "Declining Balance", useful_life_months |-> 1,
        current_location |-> "Germany", status |-> "With Customer",
        notes |-> <<>>, approval_status |-> "approved"] >>

\* the asset form (asset_form.html), as asset_new and asset_edit read it
ActiveForm ==
    [purchase_date |-> D0, purchase_value |-> 10000, dep_method |-> "Declining Balance",
     useful_life_months |-> 1, current_location |-> "Germany", status |-> "Active", notes |-> <<>>]
SoldForm ==
    [purchase_date |-> D0, purchase_value |-> 10000, dep_method |-> "Straight-Line",
     useful_life_months |-> 2, current_location |-> "NEN", status |-> "Sold", notes |-> <<>>]
NotedForm ==
    [purchase_date |-> D0, purchase_value |-> 10000, dep_method |-> "Declining Balance",
     useful_life_months |-> 1, current_location |-> "Germany", status |-> "Active",
     notes |-> <<"Demo unit">>]
AssetForms == {ActiveForm, SoldForm, NotedForm}

\* the relocation form: a placement from D1 on, one with no dates filled in,
\* and one that is already over
LocationForms ==
    { [date_from |-> D1, date_to |-> Empty, location |-> "France", purpose |-> "Demo",
       status |-> "With Customer"],
      [date_from |-> Empty, date_to |-> Empty, location |-> "NEN", purpose |-> "",
       status |-> "In Storage"],
      [date_from |-> D1, date_to |-> D2, location |-> "Germany", purpose |-> "Demo",
       status |-> "Disposed"] }

\* a sale and a disposal sent for approval at once, a sale and a write-off saved as drafts
SaleForm == [tx_type |-> "Sale", sale_price |-> 9000, send_approval |-> TRUE]
DraftSaleForm == [tx_type |-> "Sale", sale_price |-> 9000, send_approval |-> FALSE]
DisposalForm == [tx_type |-> "Disposal", sale_price |-> 0, send_approval |-> TRUE]
WriteOffForm == [tx_type |-> "Write-Off", sale_price |-> 0, send_approval |-> FALSE]
TxForms == {SaleForm, DraftSaleForm, DisposalForm, WriteOffForm}

LifeInputs == {0, 2}

-----------------------------------------------------------------------------
\* Helpers

\* the row ids of a table (SERIAL primary keys)
Ids(table) == 1..Len(table)

\* SELECT * FROM assets WHERE asset_id = ...
AssetRows(asset_id) == {i \in Ids(assets) : assets[i].asset_id = asset_id}

\* WHERE date_to IS NULL OR date_to = ''
IsOpen(row) == row.date_to.kind \in {"null", "empty"}

OpenEntries(asset_id) ==
    {i \in Ids(location_history) : location_history[i].asset_id = asset_id /\ IsOpen(location_history[i])}

require_login_absent(session) == FALSE

require_login(session) == session = NoUser

\* a check against the user list instead of the approver list
is_approver_any_user(session) == session \in USERS

is_approver(session) == session \in APPROVERS

\* an initial entry that is closed on the day it starts
InitialReceipt_closed(asset_id, purchase_date, current_location) ==
    [asset_id |-> asset_id, date_from |-> purchase_date, date_to |-> purchase_date,
     location |-> current_location, purpose |-> "Initial receipt"]

InitialReceipt(asset_id, purchase_date, current_location) ==
    [asset_id |-> asset_id, date_from |-> purchase_date, date_to |-> NULL,
     location |-> current_location, purpose |-> "Initial receipt"]

\* a rejection note without the reason
RejectedNote_bare(reason) == "[REJECTED] "

RejectedNote(reason) == "[REJECTED: " \o reason \o "] "

\* the rejection prefixes in front of an asset's notes
Rejections(notes) == {k \in 1..Len(notes) : \E reason \in Reasons : notes[k] = RejectedNote(reason)}

\* the approval request about a new asset (tid 0) or about a transaction
Email(about, asset_id, tid) == [about |-> about, asset_id |-> asset_id, tid |-> tid]

\* a notifier that hands every message over twice
send_approval_email_twice(log, message) == Append(Append(log, message), message)

\* the log after send_approval_email(subject, body)
send_approval_email(log, message) ==
    IF EMAIL_ENABLED /\ smtp_up THEN Append(log, message) ELSE log

-----------------------------------------------------------------------------
\* Initial state: init_db on an empty database

Init ==
    /\ today = Epoch
    /\ assets = SeedAssets
    /\ location_history = <<>>
    /\ sales_disposal = <<>>
    /\ emails = <<>>
    /\ response = "ok"
    /\ requests = <<>>
    /\ smtp_up = TRUE
    /\ page = <<>>

-----------------------------------------------------------------------------
\* Clock

\* datetime.date.today() moves on by a month
Tick ==
    /\ (today.y - Epoch.y) * 12 + (today.m - Epoch.m) < MaxMonth
    /\ today' = IF today.m = 12 THEN Iso(today.y + 1, 1, today.d) ELSE Iso(today.y, today.m + 1, today.d)
    /\ UNCHANGED <<db, response, requests, smtp_up, page>>

\* the mail server goes down or comes back
Smtp ==
    /\ smtp_up' = ~smtp_up
    /\ UNCHANGED <<today, db, response, requests, page>>

-----------------------------------------------------------------------------
\* Approval actions

approve_asset(session, aid, action, reason) ==
    /\ UNCHANGED <<today, smtp_up, page, sales_disposal, emails, requests>>
    /\ IF require_login(session) THEN
         /\ response' = "login"
         /\ UNCHANGED <<assets, location_history>>
       ELSE IF ~is_approver(session) THEN
         /\ response' = "forbidden"
         /\ UNCHANGED <<assets, location_history>>
       ELSE IF aid \notin Ids(assets) THEN
         \* the UPDATE matches no row, then asset is None
         /\ response' = "error"
         /\ UNCHANGED <<assets, location_history>>
       ELSE IF action = "approve" THEN
         /\ Len(location_history) < MaxLoc
         /\ assets' = [assets EXCEPT ![aid].approval_status = "approved", ![aid].status = "Active"]
         /\ location_history' = Append(location_history,
                InitialReceipt(assets[aid].asset_id, assets[aid].purchase_date, assets[aid].current_location))
         /\ response' = "ok"
       ELSE
         /\ Cardinality(Rejections(assets[aid].notes)) < MaxNotes
         /\ assets' = [assets EXCEPT ![aid].approval_status = "rejected",
                                     ![aid].notes = <<RejectedNote(reason)>> \o assets[aid].notes]
         /\ response' = "ok"
         /\ UNCHANGED location_history

\* a cascade that takes every transaction for a sale
cascaded_status_sold(tx_type) == "Sold"

\* the status an approved transaction gives its asset
cascaded_status(tx_type) == IF tx_type = "Sale" THEN "Sold" ELSE "Disposed"

approve_transaction(session, tid, action, reason) ==
    /\ UNCHANGED <<today, smtp_up, page, location_history, emails, requests>>
    /\ IF require_login(session) THEN
         /\ response' = "login"
         /\ UNCHANGED <<assets, sales_disposal>>
       ELSE IF ~is_approver(session) THEN
         /\ response' = "forbidden"
         /\ UNCHANGED <<assets, sales_disposal>>
       ELSE IF tid \notin Ids(sales_disposal) THEN
         \* the UPDATE matches no row, then tx is None
         /\ response' = "error"
         /\ UNCHANGED <<assets, sales_disposal>>
       ELSE IF action = "approve" THEN
         /\ sales_disposal' = [sales_disposal EXCEPT ![tid].approval_status = "approved",
                                                     ![tid].approved_by = session,
                                                     ![tid].approved_at = today]
         /\ assets' = [i \in Ids(assets) |->
                IF assets[i].asset_id = sales_disposal[tid].asset_id
                THEN [assets[i] EXCEPT !.status = cascaded_status(sales_disposal[tid].tx_type)]
                ELSE assets[i]]
         /\ response' = "ok"
       ELSE
         /\ sales_disposal' = [sales_disposal EXCEPT ![tid].approval_status = "rejected",
                                                     ![tid].reject_reason = reason,
                                                     ![tid].approved_by = session,
                                                     ![tid].approved_at = today]
         /\ response' = "ok"
         /\ UNCHANGED assets

-----------------------------------------------------------------------------
\* Assets

asset_new(session, asset_id, f, send_approval) ==
    /\ UNCHANGED <<today, smtp_up, page, sales_disposal, requests>>
    /\ IF require_login(session) THEN
         /\ response' = "login"
         /\ UNCHANGED <<assets, location_history, emails>>
       ELSE IF AssetRows(asset_id) # {} THEN
         \* asset_id TEXT UNIQUE: the INSERT raises
         /\ response' = "error"
         /\ UNCHANGED <<assets, location_history, emails>>
       ELSE
         LET approval    == IF send_approval THEN "pending" ELSE "approved"
             init_status == IF send_approval THEN "Pending Approval" ELSE f.status
             row == [asset_id |-> asset_id, purchase_date |-> f.purchase_date,
                     purchase_value |-> f.purchase_value, dep_method |-> f.dep_method,
                     useful_life_months |-> f.useful_life_months,
                     current_location |-> f.current_location, status |-> init_status,
                     notes |-> f.notes, approval_status |-> approval]
         IN  /\ assets' = Append(assets, row)
             /\ IF approval = "approved" THEN
                  /\ Len(location_history) < MaxLoc
                  /\ location_history' = Append(location_history,
                         InitialReceipt(asset_id, f.purchase_date, f.current_location))
                  /\ response' = "ok"
                  /\ UNCHANGED emails
                ELSE
                  /\ Len(emails) < MaxEmails
                  /\ emails' = send_approval_email(emails, Email("asset", asset_id, 0))
                  /\ response' = "ok"
                  /\ UNCHANGED location_history

\* GET /assets/<asset_id>: the page shows the row with its depreciation figures
asset_detail(session, asset_id) ==
    /\ UNCHANGED <<today, smtp_up, db, requests>>
    /\ IF require_login(session) THEN
         /\ response' = "login"
         /\ UNCHANGED page
       ELSE IF AssetRows(asset_id) = {} THEN
         /\ response' = "notfound"
         /\ UNCHANGED page
       ELSE
         LET asset == assets[CHOOSE i \in AssetRows(asset_id) : TRUE]
         IN  /\ page' = << asset @@ calc_depreciation(asset, today) >>
             /\ response' = "ok"

asset_edit(session, asset_id, f) ==
    /\ UNCHANGED <<today, smtp_up, page, location_history, sales_disposal, emails, requests>>
    /\ IF require_login(session) THEN
         /\ response' = "login"
         /\ UNCHANGED assets
       ELSE IF AssetRows(asset_id) = {} THEN
         /\ response' = "notfound"
         /\ UNCHANGED assets
       ELSE
         /\ assets' = [i \in Ids(assets) |->
                IF assets[i].asset_id = asset_id
                THEN [assets[i] EXCEPT !.purchase_date = f.purchase_date,
                                       !.purchase_value = f.purchase_value,
                                       !.dep_method = f.dep_method,
                                       !.useful_life_months = f.useful_life_months,
                                       !.current_location = f.current_location,
                                       !.status = f.status,
                                       !.notes = f.notes]
                ELSE assets[i]]
         /\ response' = "ok"

update_life(session, asset_id, input) ==
    /\ UNCHANGED <<today, smtp_up, page, location_history, sales_disposal, emails, requests>>
    /\ IF require_login(session) THEN
         /\ response' = "login"
         /\ UNCHANGED assets
       ELSE
         LET months == Max(1, input)
         IN  /\ assets' = [i \in Ids(assets) |->
                    IF assets[i].asset_id = asset_id
                    THEN [assets[i] EXCEPT !.useful_life_months = months]
                    ELSE assets[i]]
             /\ response' = "ok"

\* the SET clause of approve_asset added to the one of location_add
update_placement_activating(rows, asset_id, f) ==
    [i \in Ids(rows) |->
        IF rows[i].asset_id = asset_id
        THEN [rows[i] EXCEPT !.current_location = f.location, !.status = f.status,
                             !.approval_status = "approved"]
        ELSE rows[i]]

\* UPDATE assets SET current_location, status WHERE asset_id = ...
update_placement(rows, asset_id, f) ==
    [i \in Ids(rows) |->
        IF rows[i].asset_id = asset_id
        THEN [rows[i] EXCEPT !.current_location = f.location, !.status = f.status]
        ELSE rows[i]]

location_add(session, asset_id, f) ==
    /\ UNCHANGED <<today, smtp_up, page, sales_disposal, emails, requests>>
    /\ IF require_login(session) THEN
         /\ response' = "login"
         /\ UNCHANGED <<assets, location_history>>
       ELSE IF AssetRows(asset_id) = {} THEN
         \* the UPDATE matches no row; the INSERT breaks REFERENCES assets(asset_id)
         /\ response' = "error"
         /\ UNCHANGED <<assets, location_history>>
       ELSE
         LET closed == [i \in Ids(location_history) |->
                          IF i \in OpenEntries(asset_id)
                          THEN [location_history[i] EXCEPT !.date_to = f.date_from]
                          ELSE location_history[i]]
         IN  /\ Len(location_history) < MaxLoc
             /\ location_history' = Append(closed,
                    [asset_id |-> asset_id, date_from |-> f.date_from, date_to |-> f.date_to,
                     location |-> f.location, purpose |-> f.purpose])
             /\ assets' = update_placement(assets, asset_id, f)
             /\ response' = "ok"

-----------------------------------------------------------------------------
\* Sales and disposal

transaction_add(session, asset_id, f) ==
    /\ UNCHANGED <<today, smtp_up, page, assets, location_history, requests>>
    /\ IF require_login(session) THEN
         /\ response' = "login"
         /\ UNCHANGED <<sales_disposal, emails>>
       ELSE IF AssetRows(asset_id) = {} THEN
         \* asset is None: calc_depreciation raises
         /\ response' = "error"
         /\ UNCHANGED <<sales_disposal, emails>>
       ELSE
         LET asset == assets[CHOOSE i \in AssetRows(asset_id) : TRUE]
             dep   == calc_depreciation(asset, today)
             approval_status == IF f.send_approval THEN "pending" ELSE "draft"
         IN  /\ Len(sales_disposal) < MaxTx
             /\ sales_disposal' = Append(sales_disposal,
                    [asset_id |-> asset_id, tx_type |-> f.tx_type,
                     book_value_at_tx |-> dep.book_value, sale_price |-> f.sale_price,
                     approval_status |-> approval_status, approved_by |-> NoUser,
                     approved_at |-> NULL, reject_reason |-> ""])
             /\ IF f.send_approval THEN
                  /\ Len(emails) < MaxEmails
                  /\ emails' = send_approval_email(emails, Email("transaction", asset_id, Len(sales_disposal) + 1))
                  /\ response' = "ok"
                ELSE
                  /\ response' = "ok"
                  /\ UNCHANGED emails

\* a submit that refreshes the book value from the asset as it is now
transaction_submit_recompute(session, tid) ==
    /\ UNCHANGED <<today, smtp_up, page, assets, location_history, requests>>
    /\ IF require_login(session) THEN
         /\ response' = "login"
         /\ UNCHANGED <<sales_disposal, emails>>
       ELSE IF tid \notin Ids(sales_disposal) THEN
         /\ response' = "notfound"
         /\ UNCHANGED <<sales_disposal, emails>>
       ELSE
         /\ Len(emails) < MaxEmails
         /\ sales_disposal' = [sales_disposal EXCEPT
                ![tid].approval_status = "pending",
                ![tid].book_value_at_tx =
                    calc_depreciation(assets[CHOOSE i \in AssetRows(sales_disposal[tid].asset_id) : TRUE],
                                      today).book_value]
         /\ emails' = send_approval_email(emails, Email("transaction", sales_disposal[tid].asset_id, tid))
         /\ response' = "ok"

\* a submit that gives up, and stores nothing, when the mail server is down
transaction_submit_strict(session, tid) ==
    /\ UNCHANGED <<today, smtp_up, page, assets, location_history, requests>>
    /\ IF require_login(session) THEN
         /\ response' = "login"
         /\ UNCHANGED <<sales_disposal, emails>>
       ELSE IF tid \notin Ids(sales_disposal) THEN
         /\ response' = "notfound"
         /\ UNCHANGED <<sales_disposal, emails>>
       ELSE IF ~smtp_up THEN
         /\ response' = "error"
         /\ UNCHANGED <<sales_disposal, emails>>
       ELSE
         /\ Len(emails) < MaxEmails
         /\ sales_disposal' = [sales_disposal EXCEPT ![tid].approval_status = "pending"]
         /\ emails' = send_approval_email(emails, Email("transaction", sales_disposal[tid].asset_id, tid))
         /\ response' = "ok"

transaction_submit(session, tid) ==
    /\ UNCHANGED <<today, smtp_up, page, assets, location_history, requests>>
    /\ IF require_login(session) THEN
         /\ response' = "login"
         /\ UNCHANGED <<sales_disposal, emails>>
       ELSE IF tid \notin Ids(sales_disposal) THEN
         /\ response' = "notfound"
         /\ UNCHANGED <<sales_disposal, emails>>
       ELSE
         /\ Len(emails) < MaxEmails
         /\ sales_disposal' = [sales_disposal EXCEPT ![tid].approval_status = "pending"]
         /\ emails' = send_approval_email(emails, Email("transaction", sales_disposal[tid].asset_id, tid))
         /\ response' = "ok"

-----------------------------------------------------------------------------
\* The statements of the handlers that run several of them, one execute each

\* UPDATE location_history SET date_to = date_from of the form WHERE the entry is open
close_open_entries(lh, asset_id, date_from) ==
    [i \in Ids(lh) |->
        IF lh[i].asset_id = asset_id /\ IsOpen(lh[i])
        THEN [lh[i] EXCEPT !.date_to = date_from]
        ELSE lh[i]]

\* INSERT INTO location_history, with the dates of the form
insert_entry(lh, asset_id, f) ==
    Append(lh, [asset_id |-> asset_id, date_from |-> f.date_from, date_to |-> f.date_to,
                location |-> f.location, purpose |-> f.purpose])

\* UPDATE sales_disposal SET approval_status = 'approved', approved_by, approved_at
mark_approved(txs, tid, session, now) ==
    [txs EXCEPT ![tid].approval_status = "approved",
                ![tid].approved_by = session,
                ![tid].approved_at = now]

\* UPDATE assets SET status = ... WHERE asset_id = tx["asset_id"], tx as read before
cascade_status(rows, tx) ==
    [i \in Ids(rows) |->
        IF rows[i].asset_id = tx.asset_id
        THEN [rows[i] EXCEPT !.status = cascaded_status(tx.tx_type)]
        ELSE rows[i]]

\* UPDATE assets SET approval_status = 'approved', status = 'Active' WHERE id = aid
mark_asset_approved(rows, aid) ==
    [rows EXCEPT ![aid].approval_status = "approved", ![aid].status = "Active"]

\* the requests without the k-th, which has returned
Returned(k) == [j \in 1..(Len(requests) - 1) |-> IF j < k THEN requests[j] ELSE requests[j + 1]]

-----------------------------------------------------------------------------
\* location_add, statement by statement

\* up to the commit of the first statement
location_add_close(session, asset_id, f) ==
    /\ UNCHANGED <<today, smtp_up, page, assets, sales_disposal, emails>>
    /\ IF require_login(session) THEN
         /\ response' = "login"
         /\ UNCHANGED <<location_history, requests>>
       ELSE
         /\ Len(requests) < MaxInFlight
         /\ location_history' = close_open_entries(location_history, asset_id, f.date_from)
         /\ requests' = Append(requests,
                [op |-> "location_add", pc |-> "insert", session |-> session,
                 asset_id |-> asset_id, f |-> f])
         /\ UNCHANGED response

\* the second statement
location_add_insert(k) ==
    /\ requests[k].op = "location_add" /\ requests[k].pc = "insert"
    /\ UNCHANGED <<today, smtp_up, page, assets, sales_disposal, emails>>
    /\ IF AssetRows(requests[k].asset_id) = {} THEN
         \* the INSERT breaks REFERENCES assets(asset_id)
         /\ response' = "error"
         /\ requests' = Returned(k)
         /\ UNCHANGED location_history
       ELSE
         /\ Len(location_history) < MaxLoc
         /\ location_history' = insert_entry(location_history, requests[k].asset_id, requests[k].f)
         /\ requests' = [requests EXCEPT ![k].pc = "update"]
         /\ UNCHANGED response

\* the third statement and the redirect
location_add_update(k) ==
    /\ requests[k].op = "location_add" /\ requests[k].pc = "update"
    /\ UNCHANGED <<today, smtp_up, page, location_history, sales_disposal, emails>>
    /\ assets' = update_placement(assets, requests[k].asset_id, requests[k].f)
    /\ requests' = Returned(k)
    /\ response' = "ok"

-----------------------------------------------------------------------------
\* approve_transaction with action approve, statement by statement

\* up to the commit of the first statement
approve_transaction_mark(session, tid) ==
    /\ UNCHANGED <<today, smtp_up, page, assets, location_history, emails>>
    /\ IF require_login(session) THEN
         /\ response' = "login"
         /\ UNCHANGED <<sales_disposal, requests>>
       ELSE IF ~is_approver(session) THEN
         /\ response' = "forbidden"
         /\ UNCHANGED <<sales_disposal, requests>>
       ELSE IF tid \notin Ids(sales_disposal) THEN
         \* the UPDATE matches no row, then tx is None
         /\ response' = "error"
         /\ UNCHANGED <<sales_disposal, requests>>
       ELSE
         /\ Len(requests) < MaxInFlight
         /\ sales_disposal' = mark_approved(sales_disposal, tid, session, today)
         /\ requests' = Append(requests,
                [op |-> "approve_transaction", pc |-> "cascade", session |-> session,
                 tid |-> tid, tx |-> sales_disposal[tid]])
         /\ UNCHANGED response

\* the second statement and the redirect
approve_transaction_cascade(k) ==
    /\ requests[k].op = "approve_transaction" /\ requests[k].pc = "cascade"
    /\ UNCHANGED <<today, smtp_up, page, location_history, sales_disposal, emails>>
    /\ assets' = cascade_status(assets, requests[k].tx)
    /\ requests' = Returned(k)
    /\ response' = "ok"

-----------------------------------------------------------------------------
\* A statement fails: execute raises (the connection or the statement), the
\* handler ends with the exception, and what the earlier execute calls have
\* committed stays.  failed is the number of the statement that raises.

location_add_failing(session, asset_id, f, failed) ==
    /\ UNCHANGED <<today, smtp_up, page, sales_disposal, emails, requests>>
    /\ IF require_login(session) THEN
         /\ response' = "login"
         /\ UNCHANGED <<assets, location_history>>
       ELSE
         LET closed == close_open_entries(location_history, asset_id, f.date_from)
         IN  /\ Len(location_history) < MaxLoc
             /\ location_history' = IF failed = 1 THEN location_history
                                    ELSE IF failed = 2 THEN closed
                                    ELSE insert_entry(closed, asset_id, f)
             /\ UNCHANGED assets
             /\ response' = "error"

approve_transaction_failing(session, tid, failed) ==
    /\ UNCHANGED <<today, smtp_up, page, assets, location_history, emails, requests>>
    /\ IF require_login(session) THEN
         /\ response' = "login"
         /\ UNCHANGED sales_disposal
       ELSE IF ~is_approver(session) THEN
         /\ response' = "forbidden"
         /\ UNCHANGED sales_disposal
       ELSE
         /\ tid \in Ids(sales_disposal)
         /\ sales_disposal' = IF failed = 1 THEN sales_disposal
                              ELSE mark_approved(sales_disposal, tid, session, today)
         /\ response' = "error"

approve_asset_failing(session, aid, failed) ==
    /\ UNCHANGED <<today, smtp_up, page, location_history, sales_disposal, emails, requests>>
    /\ IF require_login(session) THEN
         /\ response' = "login"
         /\ UNCHANGED assets
       ELSE IF ~is_approver(session) THEN
         /\ response' = "forbidden"
         /\ UNCHANGED assets
       ELSE
         /\ aid \in Ids(assets)
         /\ assets' = IF failed = 1 THEN assets ELSE mark_asset_approved(assets, aid)
         /\ response' = "error"

-----------------------------------------------------------------------------
\* The pages and exports that list assets or add them up, as functions of the
\* assets table (rows) and the date

RECURSIVE Sum(_, _)
\* sum(... for a in ...): the values of column over the rows ids
Sum(column, ids) ==
    IF ids = {} THEN 0
    ELSE LET i == CHOOSE i \in ids : TRUE IN column[i] + Sum(column, ids \ {i})

\* a listing that keeps every asset
approved_all(rows) == Ids(rows)

\* [a for a in all_assets if a["approval_status"] == "approved"]
approved(rows) == {i \in Ids(rows) : rows[i].approval_status = "approved"}

dashboard(rows, now) ==
    LET dep == [i \in Ids(rows) |-> calc_depreciation(rows[i], now)]
    IN  [assets         |-> {rows[i].asset_id : i \in approved(rows)},
         total_purchase |-> Sum([i \in Ids(rows) |-> rows[i].purchase_value], approved(rows)),
         total_book     |-> Sum([i \in Ids(rows) |-> dep[i].book_value], approved(rows)),
         total_monthly  |-> Sum([i \in Ids(rows) |-> dep[i].monthly],
                                {i \in approved(rows) : rows[i].status \notin {"Sold", "Disposed"}})]

\* the asset listing: WHERE approval_status NOT IN ('pending','rejected')
assets_page(rows) ==
    {rows[i].asset_id : i \in {j \in Ids(rows) : rows[j].approval_status \notin {"pending", "rejected"}}}

\* WHERE status NOT IN ('Sold','Disposed') AND approval_status='approved'
depreciation(rows, now) ==
    LET shown == {i \in Ids(rows) : /\ rows[i].status \notin {"Sold", "Disposed"}
                                    /\ rows[i].approval_status = "approved"}
        dep   == [i \in Ids(rows) |-> calc_depreciation(rows[i], now)]
    IN  [assets         |-> {rows[i].asset_id : i \in shown},
         total_monthly  |-> Sum([i \in Ids(rows) |-> dep[i].monthly], shown),
         total_book     |-> Sum([i \in Ids(rows) |-> dep[i].book_value], shown),
         total_purchase |-> Sum([i \in Ids(rows) |-> rows[i].purchase_value], shown)]

\* the rows of the CSV and XLSX asset exports: WHERE approval_status='approved'
export_assets(rows) ==
    {rows[i].asset_id : i \in {j \in Ids(rows) : rows[j].approval_status = "approved"}}

\* the rows of the depreciation export
export_depreciation_xlsx(rows) ==
    {rows[i].asset_id : i \in {j \in Ids(rows) : /\ rows[j].status \notin {"Sold", "Disposed"}
                                                 /\ rows[j].approval_status = "approved"}}

\* the transactions page: what it reports as gain or loss of a row, None for
\* a row that is no sale
gain_loss_now(row) ==
    IF row.tx_type = "Sale"
    THEN [none |-> FALSE,
          value |-> row.sale_price - calc_depreciation(
                        assets[CHOOSE i \in AssetRows(row.asset_id) : TRUE], today).book_value]
    ELSE [none |-> TRUE, value |-> 0]

\* round(sp - bv, 2) if row["tx_type"] == "Sale" else None, in cents
gain_loss(row) ==
    IF row.tx_type = "Sale"
    THEN [none |-> FALSE, value |-> row.sale_price - row.book_value_at_tx]
    ELSE [none |-> TRUE, value |-> 0]

-----------------------------------------------------------------------------
\* Specification

\* A request: the handler with the session cookie and the inputs it arrives with.
\* who: the session users the requests come from; ids: the asset_id values
\* (or, with Unknown, also an id no row has) they name.

Unknown(table) == {Len(table) + 1}

Approve_asset(who, more) ==
    \E session \in who, aid \in Ids(assets) \cup more, action \in Actions, reason \in Reasons :
        approve_asset(session, aid, action, reason)

Approve_transaction(who, more) ==
    \E session \in who, tid \in Ids(sales_disposal) \cup more, action \in Actions, reason \in Reasons :
        approve_transaction(session, tid, action, reason)

Asset_new(who, ids, forms) ==
    \E session \in who, asset_id \in ids, f \in forms, send_approval \in BOOLEAN :
        asset_new(session, asset_id, f, send_approval)

Asset_detail(who, ids) ==
    \E session \in who, asset_id \in ids :
        asset_detail(session, asset_id)

Asset_edit(who, ids, forms) ==
    \E session \in who, asset_id \in ids, f \in forms :
        asset_edit(session, asset_id, f)

Update_life(who, ids, inputs) ==
    \E session \in who, asset_id \in ids, input \in inputs :
        update_life(session, asset_id, input)

Location_add(who, ids, forms) ==
    \E session \in who, asset_id \in ids, f \in forms :
        location_add(session, asset_id, f)

Transaction_add(who, ids, forms) ==
    \E session \in who, asset_id \in ids, f \in forms :
        transaction_add(session, asset_id, f)

Transaction_submit(who, more) ==
    \E session \in who, tid \in Ids(sales_disposal) \cup more :
        transaction_submit(session, tid)

\* a handler starts, and runs up to the commit of its first statement
Location_add_close(who, ids, forms) ==
    \E session \in who, asset_id \in ids, f \in forms :
        location_add_close(session, asset_id, f)

Approve_transaction_mark(who, more) ==
    \E session \in who, tid \in Ids(sales_disposal) \cup more :
        approve_transaction_mark(session, tid)

\* a handler that is between two statements runs its next one
Location_add_insert == \E k \in Ids(requests) : location_add_insert(k)

Location_add_update == \E k \in Ids(requests) : location_add_update(k)

Approve_transaction_cascade == \E k \in Ids(requests) : approve_transaction_cascade(k)

\* a request during which a statement fails
Location_add_failing(who, ids, forms) ==
    \E session \in who, asset_id \in ids, f \in forms, failed \in 1..3 :
        location_add_failing(session, asset_id, f, failed)

Approve_transaction_failing(who) ==
    \E session \in who, tid \in Ids(sales_disposal), failed \in 1..2 :
        approve_transaction_failing(session, tid, failed)

Approve_asset_failing(who) ==
    \E session \in who, aid \in Ids(assets), failed \in 1..2 :
        approve_asset_failing(session, aid, failed)

AllIds == AssetIds \cup {UnknownAsset}

\* every handler that writes a table, and the clock
Next ==
    \/ Tick
    \/ Smtp
    \/ Approve_asset(Sessions, Unknown(assets))
    \/ Approve_transaction(Sessions, Unknown(sales_disposal))
    \/ Asset_new(Sessions, AssetIds, AssetForms)
    \/ Asset_edit(Sessions, AllIds, AssetForms)
    \/ Update_life(Sessions, AllIds, LifeInputs)
    \/ Location_add(Sessions, AllIds, LocationForms)
    \/ Transaction_add(Sessions, AllIds, TxForms)
    \/ Transaction_submit(Sessions, Unknown(sales_disposal))

Spec == Init /\ [][Next]_vars

\* the handlers of the asset register (creation, approval, edit, relocation),
\* for requests of logged-in users about the seeded asset and a new one
NextAssets ==
    \/ Approve_asset(LoggedIn, {})
    \/ Asset_new(LoggedIn, AssetIds, {ActiveForm})
    \/ Asset_edit(LoggedIn, AssetIds, {SoldForm})
    \/ Update_life(LoggedIn, AssetIds, {0})
    \/ Location_add(LoggedIn, AssetIds, LocationForms)

SpecAssets == Init /\ [][NextAssets]_vars

\* the handlers of sales and disposals, with the edit handlers and the clock,
\* for requests of logged-in users about the seeded asset
NextSales ==
    \/ Tick
    \/ Approve_transaction(LoggedIn, {})
    \/ Asset_edit(LoggedIn, {"DU-001"}, {SoldForm})
    \/ Update_life(LoggedIn, {"DU-001"}, {0})
    \/ Transaction_add(LoggedIn, {"DU-001"}, {SaleForm, DisposalForm, WriteOffForm})
    \/ Transaction_submit(LoggedIn, {})

SpecSales == Init /\ [][NextSales]_vars

\* the two approval workflows: a user submits a new asset and a sale of
\* the seeded asset; anyone, logged in or not, asks to approve or reject them
NextApproval ==
    \/ Asset_new({"Minami"}, {"DU-002"}, {ActiveForm})
    \/ Approve_asset(Sessions, {})
    \/ Transaction_add({"Minami"}, {"DU-001"}, {SaleForm})
    \/ Approve_transaction(Sessions, {})

SpecApproval == Init /\ [][NextApproval]_vars

\* approvals of pending sales and disposals of the seeded asset, statement by
\* statement, while other requests are served
NextCascade ==
    \/ Tick
    \/ Transaction_add({"Minami"}, {"DU-001"}, {SaleForm, DisposalForm})
    \/ Approve_transaction_mark(LoggedIn, {})
    \/ Approve_transaction_cascade

SpecCascade == Init /\ [][NextCascade]_vars

\* relocations of the assets on the register, statement by statement, by
\* forms with a date_from
NextRelocation ==
    \/ Asset_new({"Minami"}, {"DU-002"}, {ActiveForm})
    \/ Location_add_close(LoggedIn, {asset_id \in AssetIds : AssetRows(asset_id) # {}},
                          {f \in LocationForms : f.date_from # Empty})
    \/ Location_add_insert
    \/ Location_add_update

SpecRelocation == Init /\ [][NextRelocation]_vars

\* the handlers with several statements, each request either served or cut
\* short by a failing statement
NextFailure ==
    \/ Asset_new({"Minami"}, {"DU-002"}, {ActiveForm})
    \/ Transaction_add({"Minami"}, {"DU-001"}, {SaleForm, DisposalForm})
    \/ Approve_asset({"Yuki"}, {})
    \/ Approve_transaction({"Yuki"}, {})
    \/ Location_add({"Minami"}, {"DU-001"}, {f \in LocationForms : f.date_from # Empty})
    \/ Approve_asset_failing(LoggedIn)
    \/ Approve_transaction_failing(LoggedIn)
    \/ Location_add_failing(LoggedIn, {"DU-001"}, {f \in LocationForms : f.date_from # Empty})

SpecFailure == Init /\ [][NextFailure]_vars

\* approval decisions about new assets that come with notes
NextRejection ==
    \/ Asset_new(LoggedIn, {"DU-002"}, {ActiveForm, NotedForm})
    \/ Asset_edit(LoggedIn, AssetIds, {NotedForm})
    \/ Approve_asset(LoggedIn, {})

SpecRejection == Init /\ [][NextRejection]_vars

\* the handlers that notify the approvers, with a mail server that comes and goes
NextMail ==
    \/ Tick
    \/ Smtp
    \/ Asset_new(LoggedIn, {"DU-002"}, {ActiveForm})
    \/ Transaction_add(LoggedIn, {"DU-001"}, {SaleForm, WriteOffForm})
    \/ Transaction_submit(LoggedIn, {})

SpecMail == Init /\ [][NextMail]_vars

\* sales, disposals and write-offs of the seeded asset and the decisions about them
NextDecision ==
    \/ Transaction_add({"Minami"}, {"DU-001"}, {SaleForm, DisposalForm, WriteOffForm})
    \/ Transaction_submit({"Minami"}, {})
    \/ Approve_transaction(LoggedIn, {})
    \/ Location_add({"Minami"}, {"DU-001"}, {f \in LocationForms : f.date_to = Empty})

SpecDecision == Init /\ [][NextDecision]_vars

\* requests that name an asset or a transaction no row has, among requests
\* that name existing ones
NextMissing ==
    \/ Transaction_add({"Minami"}, AllIds, {SaleForm, WriteOffForm})
    \/ Transaction_submit({"Minami"}, Unknown(sales_disposal))
    \/ Approve_asset({"Yuki"}, Unknown(assets))
    \/ Approve_transaction({"Yuki"}, Unknown(sales_disposal))
    \/ Location_add({"Minami"}, AllIds, {f \in LocationForms : f.date_to = Empty})
    \/ Update_life({"Minami"}, AllIds, {2})

SpecMissing == Init /\ [][NextMissing]_vars

-----------------------------------------------------------------------------
\* The depreciation calculator on its own: one asset whose purchase facts are
\* drawn from the sets below, shown on its page while the clock moves on

\* strings fromisoformat rejects: the 30th of February, a thirteenth month
Unparseable == {Iso(2023, 2, 30), Iso(2023, 13, 1)}

\* purchase dates: after the clock's start, in its month but later in the
\* month, and one, two, four and twelve months before it
PurchaseDates ==
    {NULL, Empty} \cup Unparseable \cup
    {Iso(2024, 3, 1), Iso(2023, 12, 31), D0, Iso(2023, 10, 1), Iso(2023, 8, 31), Iso(2022, 12, 5)}

PurchaseValues == {0, 1, 500, 1200000}
Methods == {"None", "Straight-Line", "Declining Balance"}
Lives == {1, 2, 60}

\* the powers of a declining balance have to fit TLC's 32-bit integers
Representable(a) ==
    a.dep_method = "Declining Balance" =>
        /\ a.purchase_value <= 500
        /\ a.useful_life_months <= 2
        /\ a.purchase_date # Iso(2022, 12, 5)

CalcAssets ==
    {a \in [asset_id : {"DU-001"}, purchase_date : PurchaseDates, purchase_value : PurchaseValues,
            dep_method : Methods, useful_life_months : Lives,
            current_location : {"Germany"}, status : {"Active"},
            notes : {<<>>}, approval_status : {"approved"}] : Representable(a)}

InitCalc ==
    /\ today = Epoch
    /\ assets \in {<<a>> : a \in CalcAssets}
    /\ location_history = <<>>
    /\ sales_disposal = <<>>
    /\ emails = <<>>
    /\ response = "ok"
    /\ requests = <<>>
    /\ smtp_up = TRUE
    /\ page = <<>>

NextCalc ==
    \/ Tick
    \/ Asset_detail({"Minami"}, {"DU-001"})

SpecCalc == InitCalc /\ [][NextCalc]_vars

\* requests that come without a session user, among the requests of a user
\* that put a new asset, a relocation and a sale on record
NextAnonymous ==
    \/ Asset_new({NoUser, "Minami"}, {"DU-002"}, {ActiveForm})
    \/ Asset_edit({NoUser}, AssetIds, {SoldForm})
    \/ Update_life({NoUser}, AssetIds, {2})
    \/ Location_add({NoUser, "Minami"}, {"DU-001"}, {f \in LocationForms : f.date_to = Empty})
    \/ Transaction_add({NoUser, "Minami"}, {"DU-001"}, {SaleForm, DraftSaleForm})
    \/ Transaction_submit({NoUser}, {})
    \/ Approve_asset({NoUser}, {})
    \/ Approve_transaction({NoUser}, {})

SpecAnonymous == Init /\ [][NextAnonymous]_vars

\* a new asset that waits for its approval or was rejected, while it is
\* edited, relocated and sold
NextFrame ==
    \/ asset_new("Minami", "DU-002", ActiveForm, TRUE)
    \/ \E reason \in Reasons : approve_asset("Yuki", Len(SeedAssets) + 1, "reject", reason)
    \/ Asset_edit({"Minami"}, {"DU-002"}, {SoldForm})
    \/ Update_life({"Minami"}, {"DU-002"}, {2})
    \/ Location_add({"Minami"}, {"DU-002"}, {f \in LocationForms : f.date_from = Empty})
    \/ Transaction_add({"Minami"}, {"DU-002"}, {DraftSaleForm})
    \/ Transaction_submit({"Minami"}, {})
    \/ Approve_transaction({"Yuki"}, {})

SpecFrame == Init /\ [][NextFrame]_vars

----
\* Properties

Tables == <<assets, location_history, sales_disposal>>

\* the row of an asset_id (asset_id is UNIQUE)
AssetOf(asset_id) == assets[CHOOSE i \in AssetRows(asset_id) : TRUE]

ApprovedTx(asset_id, types) ==
    {t \in Ids(sales_disposal) : /\ sales_disposal[t].asset_id = asset_id
                                 /\ sales_disposal[t].tx_type \in types
                                 /\ sales_disposal[t].approval_status = "approved"}

EmailsAbout(tid) == {k \in Ids(emails) : emails[k].about = "transaction" /\ emails[k].tid = tid}

\* C1: in every reachable state each asset has at most one location_history
\* entry whose date_to is empty (NULL or '').
C1_AtMostOneOpenEntry ==
    \A i \in Ids(assets) : Cardinality(OpenEntries(assets[i].asset_id)) <= 1

\* C2: a completed location_add on an asset that had at most one open entry
\* leaves that asset with at most one open entry, whatever date_from and
\* date_to were submitted.
C2_LocationAddKeepsOneOpen ==
    [][\A session \in Sessions, asset_id \in AssetIds, f \in LocationForms :
         (location_add(session, asset_id, f) /\ Cardinality(OpenEntries(asset_id)) <= 1)
            => Cardinality(OpenEntries(asset_id))' <= 1]_vars

\* C3: an asset whose status is Sold has an approved Sale transaction, and an
\* asset whose status is Disposed has an approved Disposal or Write-Off.
C3_SoldDisposedOnlyByApproval ==
    \A i \in Ids(assets) :
        /\ assets[i].status = "Sold" => ApprovedTx(assets[i].asset_id, {"Sale"}) # {}
        /\ assets[i].status = "Disposed" =>
              ApprovedTx(assets[i].asset_id, TX_TYPES \ {"Sale"}) # {}

\* C4: an asset with an approved Sale transaction has status Sold, and an asset
\* with an approved Disposal or Write-Off has status Disposed, also after later
\* edits, relocations and approvals.
C4_ApprovedTxKeepsStatus ==
    \A i \in Ids(assets) :
        /\ ApprovedTx(assets[i].asset_id, {"Sale"}) # {} => assets[i].status = "Sold"
        /\ ApprovedTx(assets[i].asset_id, TX_TYPES \ {"Sale"}) # {} =>
              assets[i].status = "Disposed"

\* C5: once a transaction is approved or rejected, no transaction_submit or
\* approve_transaction changes its approval_status, approved_by or
\* reject_reason, and no operation deletes it.
C5_DecidedTxIsTerminal ==
    [][\A tid \in Ids(sales_disposal) :
         sales_disposal[tid].approval_status \in {"approved", "rejected"} =>
            /\ tid \in Ids(sales_disposal')
            /\ sales_disposal'[tid].approval_status = sales_disposal[tid].approval_status
            /\ sales_disposal'[tid].approved_by = sales_disposal[tid].approved_by
            /\ sales_disposal'[tid].reject_reason = sales_disposal[tid].reject_reason]_vars

\* C6: a transaction's approval_status only goes from draft to pending and from
\* pending to approved or rejected, and the asset's status is only cascaded
\* for a transaction that was pending.
C6_TxTransitions ==
    [][\A tid \in Ids(sales_disposal) :
         LET old == sales_disposal[tid].approval_status
             new == sales_disposal'[tid].approval_status
         IN  /\ tid \in Ids(sales_disposal')
             /\ new # old => \/ (old = "draft" /\ new = "pending")
                             \/ (old = "pending" /\ new \in {"approved", "rejected"})
             /\ (\E session \in Sessions, reason \in Reasons :
                    approve_transaction(session, tid, "approve", reason)) /\ old # "pending"
                  => UNCHANGED assets]_vars

\* C7: an asset's approval_status only goes from pending to approved or to
\* rejected, and approving an asset that is already approved changes nothing.
C7_AssetApprovalTerminal ==
    [][\A aid \in Ids(assets) :
         LET old == assets[aid].approval_status
             new == assets'[aid].approval_status
         IN  /\ new # old => old = "pending" /\ new \in {"approved", "rejected"}
             /\ (\E session \in Sessions, reason \in Reasons :
                    approve_asset(session, aid, "approve", reason)) /\ old = "approved"
                  => UNCHANGED <<assets, location_history>>]_vars

\* C8: approve_asset and approve_transaction, with either action, by a user
\* outside the approver set change no asset, location_history or transaction.
C8_NonApproverChangesNothing ==
    [][\A session \in Sessions \ APPROVERS, action \in Actions, reason \in Reasons :
         /\ \A aid \in 1..(Len(assets) + 1) :
               approve_asset(session, aid, action, reason) => UNCHANGED Tables
         /\ \A tid \in 1..(Len(sales_disposal) + 1) :
               approve_transaction(session, tid, action, reason) => UNCHANGED Tables]_vars

\* a non-approver's approval request was refused while a transaction was pending
C8_Witness ==
    /\ response = "forbidden"
    /\ \E tid \in Ids(sales_disposal) : sales_disposal[tid].approval_status = "pending"

\* C9: at most one approval notification is ever sent about a transaction.
C9_OneNotificationPerTx ==
    \A tid \in Ids(sales_disposal) : Cardinality(EmailsAbout(tid)) <= 1

\* C10: book_value_at_tx is set by transaction_add to the book value
\* calc_depreciation gives for the asset at that moment, and no later step
\* changes it.
C10_BookValueFrozen ==
    [][/\ \A tid \in Ids(sales_disposal) :
            /\ tid \in Ids(sales_disposal')
            /\ sales_disposal'[tid].book_value_at_tx = sales_disposal[tid].book_value_at_tx
       /\ \A tid \in Ids(sales_disposal') \ Ids(sales_disposal) :
            /\ \E session \in Sessions, f \in TxForms :
                  transaction_add(session, sales_disposal'[tid].asset_id, f)
            /\ sales_disposal'[tid].book_value_at_tx =
                  calc_depreciation(AssetOf(sales_disposal'[tid].asset_id), today).book_value]_vars

\* a submitted or decided transaction whose frozen book value is no longer the
\* asset's book value
C10_Witness ==
    \E tid \in Ids(sales_disposal) :
        /\ sales_disposal[tid].approval_status # "draft"
        /\ sales_disposal[tid].book_value_at_tx #
              calc_depreciation(AssetOf(sales_disposal[tid].asset_id), today).book_value

\* C11: no state, between the statements of approve_transaction or after
\* them, has an approved transaction whose asset does not yet have the
\* cascaded status (Sold for a Sale, Disposed otherwise).
C11_NoApprovedBeforeCascade ==
    \A tid \in Ids(sales_disposal) :
        sales_disposal[tid].approval_status = "approved" =>
            AssetOf(sales_disposal[tid].asset_id).status = cascaded_status(sales_disposal[tid].tx_type)

\* C12: no state, between the statements of one or several location_add
\* requests or after them, has two open location_history entries of one asset.
C12_NoTwoOpenWhileRelocating ==
    \A asset_id \in AssetIds : Cardinality(OpenEntries(asset_id)) <= 1

\* C13: a location_add, approve_transaction or approve_asset request during
\* which a storage write fails has no effect on the tables, whichever of its
\* statements fails.
C13_FailedOperationHasNoEffect ==
    [][/\ \A session \in LoggedIn, asset_id \in AssetIds, f \in LocationForms, failed \in 1..3 :
            location_add_failing(session, asset_id, f, failed) => UNCHANGED Tables
       /\ \A session \in LoggedIn, tid \in Ids(sales_disposal), failed \in 1..2 :
            approve_transaction_failing(session, tid, failed) => UNCHANGED Tables
       /\ \A session \in LoggedIn, aid \in Ids(assets), failed \in 1..2 :
            approve_asset_failing(session, aid, failed) => UNCHANGED Tables]_vars

\* C14: after a completed location_add, every entry of the asset that was open
\* has date_to equal to the new entry's date_from, the new entry is the
\* asset's only open entry, and the asset's current_location and status are
\* those of the new placement.
C14_LocationAddOpensNewInterval ==
    [][\A session \in LoggedIn, asset_id \in AssetIds, f \in LocationForms :
         (location_add(session, asset_id, f) /\ response' = "ok") =>
            LET new == Len(location_history')
            IN  /\ new = Len(location_history) + 1
                /\ location_history'[new].asset_id = asset_id
                /\ \A i \in OpenEntries(asset_id) :
                      location_history'[i].date_to = location_history'[new].date_from
                /\ OpenEntries(asset_id)' = {new}
                /\ AssetOf(asset_id)'.current_location = f.location
                /\ AssetOf(asset_id)'.status = f.status]_vars

\* C15: approve_transaction by an approver, with action approve, makes the
\* transaction approved, records the approver and the time, and sets the
\* asset's status to Sold for a Sale and to Disposed for a Disposal or
\* Write-Off; with action reject it records the reason, the approver and the
\* time and changes no asset.
C15_ApproveTransactionEffect ==
    [][\A session \in APPROVERS, tid \in Ids(sales_disposal), reason \in Reasons :
         LET tx    == sales_disposal[tid]
             after == sales_disposal'[tid]
         IN  /\ approve_transaction(session, tid, "approve", reason) =>
                  /\ after = [tx EXCEPT !.approval_status = "approved",
                                        !.approved_by = session, !.approved_at = today]
                  /\ \A i \in Ids(assets) :
                        assets'[i] = IF assets[i].asset_id = tx.asset_id
                                     THEN [assets[i] EXCEPT !.status =
                                             IF tx.tx_type = "Sale" THEN "Sold"
                                             ELSE IF tx.tx_type \in {"Disposal", "Write-Off"} THEN "Disposed"
                                             ELSE assets[i].status]
                                     ELSE assets[i]
             /\ approve_transaction(session, tid, "reject", reason) =>
                  /\ after = [tx EXCEPT !.approval_status = "rejected", !.reject_reason = reason,
                                        !.approved_by = session, !.approved_at = today]
                  /\ UNCHANGED assets]_vars

\* an approver has approved a Write-Off and the asset is Disposed
C15_Witness ==
    \E tid \in Ids(sales_disposal) :
        /\ sales_disposal[tid].tx_type = "Write-Off"
        /\ sales_disposal[tid].approval_status = "approved"
        /\ sales_disposal[tid].approved_by \in APPROVERS
        /\ sales_disposal[tid].approved_at = today
        /\ AssetOf(sales_disposal[tid].asset_id).status = "Disposed"

\* C16: approve_asset by an approver, with action approve, on a pending asset
\* makes it approved and Active and adds exactly one location_history entry,
\* of that asset, with purpose 'Initial receipt', date_from the asset's
\* purchase_date and an empty date_to; no other record changes.
C16_ApproveAssetEffect ==
    [][\A session \in APPROVERS, aid \in Ids(assets), reason \in Reasons :
         (approve_asset(session, aid, "approve", reason) /\ assets[aid].approval_status = "pending") =>
            LET new == Len(location_history')
            IN  /\ assets' = [assets EXCEPT ![aid].approval_status = "approved",
                                            ![aid].status = "Active"]
                /\ new = Len(location_history) + 1
                /\ SubSeq(location_history', 1, new - 1) = location_history
                /\ location_history'[new].asset_id = assets[aid].asset_id
                /\ location_history'[new].purpose = "Initial receipt"
                /\ location_history'[new].date_from = assets[aid].purchase_date
                /\ IsOpen(location_history'[new])
                /\ UNCHANGED sales_disposal]_vars

\* an asset that was submitted for approval is approved, Active, and has its
\* initial entry
C16_Witness ==
    \E aid \in Ids(assets) :
        /\ \E k \in Ids(emails) : emails[k].about = "asset" /\ emails[k].asset_id = assets[aid].asset_id
        /\ assets[aid].approval_status = "approved"
        /\ assets[aid].status = "Active"
        /\ \E i \in OpenEntries(assets[aid].asset_id) :
              location_history[i].purpose = "Initial receipt"

\* C17: rejecting an asset makes it rejected, puts the rejection reason in
\* front of its notes, which stay as they were behind it, and changes no
\* location_history entry.
C17_RejectAssetEffect ==
    [][\A session \in APPROVERS, aid \in Ids(assets), reason \in Reasons :
         approve_asset(session, aid, "reject", reason) =>
            /\ assets' = [assets EXCEPT
                    ![aid].approval_status = "rejected",
                    ![aid].notes = <<"[REJECTED: " \o reason \o "] ">> \o assets[aid].notes]
            /\ UNCHANGED <<location_history, sales_disposal>>]_vars

\* a new asset that came with notes is rejected: the reason stands in front of
\* them and the asset has no location entry
C17_Witness ==
    \E aid \in Ids(assets) :
        /\ assets[aid].approval_status = "rejected"
        /\ assets[aid].notes = <<"[REJECTED: duplicate] ", "Demo unit">>
        /\ \A i \in Ids(location_history) : location_history[i].asset_id # assets[aid].asset_id

\* C18: asset_new with approval required stores the asset as pending with
\* status 'Pending Approval', sends exactly one notification and adds no
\* location entry; without approval required it stores the asset as approved,
\* adds exactly one open 'Initial receipt' entry and sends no notification.
C18_AssetNewEffect ==
    [][\A session \in LoggedIn, asset_id \in AssetIds, f \in AssetForms, send_approval \in BOOLEAN :
         (asset_new(session, asset_id, f, send_approval) /\ response' = "ok") =>
            LET row == assets'[Len(assets')]
                new == Len(location_history')
            IN  /\ Len(assets') = Len(assets) + 1
                /\ SubSeq(assets', 1, Len(assets)) = assets
                /\ row.asset_id = asset_id
                /\ IF send_approval THEN
                     /\ row.approval_status = "pending"
                     /\ row.status = "Pending Approval"
                     /\ emails' = Append(emails, [about |-> "asset", asset_id |-> asset_id, tid |-> 0])
                     /\ UNCHANGED location_history
                   ELSE
                     /\ row.approval_status = "approved"
                     /\ new = Len(location_history) + 1
                     /\ SubSeq(location_history', 1, new - 1) = location_history
                     /\ location_history'[new].asset_id = asset_id
                     /\ location_history'[new].purpose = "Initial receipt"
                     /\ IsOpen(location_history'[new])
                     /\ UNCHANGED emails]_vars

\* an asset waits for approval: one notification about it, no location entry
C18_Witness ==
    \E aid \in Ids(assets) :
        /\ assets[aid].approval_status = "pending"
        /\ assets[aid].status = "Pending Approval"
        /\ Cardinality({k \in Ids(emails) : emails[k].about = "asset"
                                            /\ emails[k].asset_id = assets[aid].asset_id}) = 1
        /\ \A i \in Ids(location_history) : location_history[i].asset_id # assets[aid].asset_id

\* the assets table without the assets that wait for approval
WithoutPending == SelectSeq(assets, LAMBDA row : row.approval_status # "pending")

\* the asset is listed on a page or in an export
Listed(asset_id) ==
    \/ asset_id \in dashboard(assets, today).assets
    \/ asset_id \in assets_page(assets)
    \/ asset_id \in depreciation(assets, today).assets
    \/ asset_id \in export_assets(assets)
    \/ asset_id \in export_depreciation_xlsx(assets)

\* C19: an asset that waits for approval is on no listing and in no export,
\* and the dashboard and depreciation totals are what they would be without
\* it; it appears only by an approve_asset that approves it.
C19_PendingIsNotListed ==
    [][/\ \A asset_id \in AssetIds :
            (AssetRows(asset_id) # {} /\ AssetOf(asset_id).approval_status = "pending")' =>
               ~Listed(asset_id)'
       /\ dashboard(assets, today)' = dashboard(WithoutPending, today)'
       /\ depreciation(assets, today)' = depreciation(WithoutPending, today)'
       /\ \A aid \in Ids(assets), asset_id \in AssetIds :
            (/\ assets[aid].asset_id = asset_id
             /\ assets[aid].approval_status = "pending"
             /\ Listed(asset_id)') =>
               \E session \in APPROVERS, reason \in Reasons : approve_asset(session, aid, "approve", reason)]_vars

\* an asset with a purchase value waits for approval next to a listed one
C19_Witness ==
    /\ \E aid \in Ids(assets) : assets[aid].approval_status = "pending" /\ assets[aid].purchase_value > 0
    /\ dashboard(assets, today).total_purchase > 0

\* C20: while the mail server refuses the message, asset_new with approval
\* required, transaction_add with approval requested and transaction_submit
\* complete and store what they store when the message is sent: the pending
\* asset, the pending transaction with its book value, the pending status.
C20_SendFailureChangesNothing ==
    [][~smtp_up =>
         /\ \A session \in LoggedIn, asset_id \in AssetIds, f \in AssetForms :
               (asset_new(session, asset_id, f, TRUE) /\ AssetRows(asset_id) = {}) =>
                  /\ response' = "ok"
                  /\ assets' = Append(assets,
                        [asset_id |-> asset_id, purchase_date |-> f.purchase_date,
                         purchase_value |-> f.purchase_value, dep_method |-> f.dep_method,
                         useful_life_months |-> f.useful_life_months,
                         current_location |-> f.current_location, status |-> "Pending Approval",
                         notes |-> f.notes, approval_status |-> "pending"])
                  /\ UNCHANGED <<location_history, sales_disposal>>
         /\ \A session \in LoggedIn, asset_id \in AssetIds, f \in TxForms :
               (transaction_add(session, asset_id, f) /\ AssetRows(asset_id) # {} /\ f.send_approval) =>
                  /\ response' = "ok"
                  /\ sales_disposal' = Append(sales_disposal,
                        [asset_id |-> asset_id, tx_type |-> f.tx_type,
                         book_value_at_tx |-> calc_depreciation(AssetOf(asset_id), today).book_value,
                         sale_price |-> f.sale_price, approval_status |-> "pending",
                         approved_by |-> NoUser, approved_at |-> NULL, reject_reason |-> ""])
                  /\ UNCHANGED <<assets, location_history>>
         /\ \A session \in LoggedIn, tid \in Ids(sales_disposal) :
               transaction_submit(session, tid) =>
                  /\ response' = "ok"
                  /\ sales_disposal' = [sales_disposal EXCEPT ![tid].approval_status = "pending"]
                  /\ UNCHANGED <<assets, location_history>>]_vars

\* a draft was submitted while the mail server was down: it is pending, the
\* request completed, and no message about it was sent
C20_Witness ==
    /\ ~smtp_up
    /\ response = "ok"
    /\ \E tid \in Ids(sales_disposal) :
          /\ sales_disposal[tid].tx_type = "Write-Off"
          /\ sales_disposal[tid].approval_status = "pending"
          /\ EmailsAbout(tid) = {}

\* C21: approve_asset, approve_transaction, transaction_submit,
\* transaction_add, location_add and update_life, called by a user who may
\* call them with an id no row has, report NotFound, change no table and send
\* no notification.
C21_MissingEntityIsNotFound ==
    [][/\ \A session \in APPROVERS, action \in Actions, reason \in Reasons :
            /\ \A aid \in Unknown(assets) :
                  approve_asset(session, aid, action, reason) =>
                     response' = "notfound" /\ UNCHANGED db
            /\ \A tid \in Unknown(sales_disposal) :
                  approve_transaction(session, tid, action, reason) =>
                     response' = "notfound" /\ UNCHANGED db
       /\ \A session \in LoggedIn :
            /\ \A tid \in Unknown(sales_disposal) :
                  transaction_submit(session, tid) => response' = "notfound" /\ UNCHANGED db
            /\ \A f \in TxForms :
                  transaction_add(session, UnknownAsset, f) => response' = "notfound" /\ UNCHANGED db
            /\ \A f \in LocationForms :
                  location_add(session, UnknownAsset, f) => response' = "notfound" /\ UNCHANGED db
            /\ \A input \in LifeInputs :
                  update_life(session, UnknownAsset, input) =>
                     response' = "notfound" /\ UNCHANGED db]_vars

\* C22: the gain_loss reported for a transaction is sale_price minus
\* book_value_at_tx for a Sale and None for a Disposal or Write-Off, and no
\* step (an edit of the asset, a new useful life, an approval, the passing of
\* time) changes what is reported for an existing transaction.
C22_GainLossIsFrozen ==
    [][\A tid \in Ids(sales_disposal') :
         LET tx == sales_disposal'[tid]
         IN  /\ tx.tx_type = "Sale" =>
                  gain_loss(tx) = [none |-> FALSE, value |-> tx.sale_price - tx.book_value_at_tx]
             /\ tx.tx_type \in {"Disposal", "Write-Off"} => gain_loss(tx).none
             /\ tid \in Ids(sales_disposal) => gain_loss(tx) = gain_loss(sales_disposal[tid])]_vars

\* an approved sale whose asset has a different book value by now
C22_Witness ==
    \E tid \in Ids(sales_disposal) :
        /\ sales_disposal[tid].tx_type = "Sale"
        /\ sales_disposal[tid].approval_status = "approved"
        /\ ~gain_loss(sales_disposal[tid]).none
        /\ gain_loss(sales_disposal[tid]).value # 
              sales_disposal[tid].sale_price
                 - calc_depreciation(AssetOf(sales_disposal[tid].asset_id), today).book_value

\* C23: whenever the purchase date is absent or cannot be parsed, the purchase
\* value is 0 or the method is None, the page shows the zero snapshot: monthly
\* 0, accumulated 0, the purchase value as book value, no months elapsed and
\* not fully depreciated, whatever the date and the useful life are
C23_ZeroSnapshot ==
    \A i \in 1..Len(page) :
        LET p == page[i]
        IN  (\/ p.purchase_date \in {NULL, Empty} \cup Unparseable
             \/ p.purchase_value = 0
             \/ p.dep_method = "None")
            => /\ p.monthly = 0
               /\ p.accumulated = 0
               /\ p.book_value = p.purchase_value
               /\ p.months_elapsed = 0
               /\ p.fully_dep = FALSE

\* the page of a Straight-Line asset of 12000.00 with an unparseable purchase
\* date, with the clock past its start
C23_Witness ==
    /\ page # <<>>
    /\ today # Epoch
    /\ page[1].purchase_date \in Unparseable
    /\ page[1].purchase_value = 1200000
    /\ page[1].dep_method = "Straight-Line"
    /\ page[1].useful_life_months = 1
    /\ response = "ok"

\* C24: for a purchase date that parses, a value other than 0 and a
\* depreciating method, the page shows as months elapsed the months of the
\* calendar from the purchase month to the current month, never less than 0
\* and whatever the days of the two dates are, and shows the asset as fully
\* depreciated exactly when these months reach its useful life
C24_MonthsElapsed ==
    [][\A session \in Sessions, asset_id \in AssetIds :
          asset_detail(session, asset_id) /\ response' = "ok"
          => \A i \in 1..Len(page') :
                LET start == page'[i].purchase_date
                    diff  == (today.y * 12 + today.m) - (start.y * 12 + start.m)
                IN  (/\ start \in PurchaseDates \ ({NULL, Empty} \cup Unparseable)
                     /\ page'[i].purchase_value # 0
                     /\ page'[i].dep_method \in {"Straight-Line", "Declining Balance"})
                    => /\ page'[i].months_elapsed = (IF diff < 0 THEN 0 ELSE diff)
                       /\ page'[i].fully_dep = (page'[i].months_elapsed >= page'[i].useful_life_months)]_vars

\* 2023-11-20 to 2024-01-05 counts as two months, the whole life of the asset
C24_Witness ==
    /\ page # <<>>
    /\ today = Iso(2024, 1, 5)
    /\ page[1].purchase_date = D0
    /\ page[1].purchase_value = 500
    /\ page[1].dep_method = "Declining Balance"
    /\ page[1].useful_life_months = 2
    /\ page[1].months_elapsed = 2
    /\ page[1].fully_dep

\* x is num/den rounded to a whole number of cents (den > 0)
Rounded(x, num, den) ==
    /\ 2 * (x * den - num) <= den
    /\ 2 * (num - x * den) <= den

\* the page shows a Straight-Line asset with a purchase date that parses, a
\* positive value and a positive useful life
StraightLinePage(p) ==
    /\ p.dep_method = "Straight-Line"
    /\ p.purchase_date \in PurchaseDates \ ({NULL, Empty} \cup Unparseable)
    /\ p.purchase_value > 0
    /\ p.useful_life_months > 0

\* C25: for a Straight-Line asset of positive value and positive useful life
\* the page shows, to the cent, monthly = value / life, accumulated =
\* min(value, monthly * months elapsed) and book value = max(0, value -
\* accumulated); the book value is 0 once the months elapsed reach the life
\* and is never more than on a page rendered earlier; 12000.00 over 60 months
\* gives after 12 months 200.00 a month, 2400.00 accumulated, 9600.00 left
C25_StraightLine ==
    [][\A session \in Sessions, asset_id \in AssetIds :
          asset_detail(session, asset_id) /\ response' = "ok"
          => \A i \in 1..Len(page') :
                LET pv     == page'[i].purchase_value
                    life   == page'[i].useful_life_months
                    months == page'[i].months_elapsed
                    accN   == IF months >= life THEN pv * life ELSE pv * months
                IN  StraightLinePage(page'[i])
                    => /\ Rounded(page'[i].monthly, pv, life)
                       /\ Rounded(page'[i].accumulated, accN, life)
                       /\ Rounded(page'[i].book_value, pv * life - accN, life)
                       /\ page'[i].accumulated <= pv
                       /\ page'[i].book_value >= 0
                       /\ months >= life => page'[i].book_value = 0
                       /\ (pv = 1200000 /\ life = 60 /\ months = 12)
                          => /\ page'[i].monthly = 20000
                             /\ page'[i].accumulated = 240000
                             /\ page'[i].book_value = 960000
                       /\ \A j \in 1..Len(page) :
                             (/\ StraightLinePage(page[j])
                              /\ page[j].purchase_date = page'[i].purchase_date
                              /\ page[j].purchase_value = pv
                              /\ page[j].useful_life_months = life
                              /\ page[j].months_elapsed <= months)
                             => page'[i].book_value <= page[j].book_value]_vars

\* the asset of the example a month later: 13 months elapsed and 9400.00
\* left, after the page showed 9600.00
C25_Witness ==
    /\ page # <<>>
    /\ page[1].dep_method = "Straight-Line"
    /\ page[1].purchase_value = 1200000
    /\ page[1].useful_life_months = 60
    /\ page[1].months_elapsed = 13
    /\ page[1].book_value = 940000
    /\ page[1].accumulated = 260000

\* the page shows a Declining Balance asset with a purchase date that parses,
\* a positive value and a positive useful life
DecliningBalancePage(p) ==
    /\ p.dep_method = "Declining Balance"
    /\ p.purchase_date \in PurchaseDates \ ({NULL, Empty} \cup Unparseable)
    /\ p.purchase_value > 0
    /\ p.useful_life_months > 0

\* the page rendered now shows the asset of the page before it, q, a number
\* of months later or in the same month
LaterPage(q, p) ==
    /\ DecliningBalancePage(q)
    /\ q.purchase_date = p.purchase_date
    /\ q.purchase_value = p.purchase_value
    /\ q.useful_life_months = p.useful_life_months
    /\ q.months_elapsed <= p.months_elapsed

\* C26 as stated: for a Declining Balance asset of positive value and positive
\* useful life the book value on the page is less with every further month
\* elapsed and is never 0, and accumulated + book value is the purchase value
\* to the cent
C26_BookValueStrictlyDecreases ==
    [][\A session \in Sessions, asset_id \in AssetIds :
          asset_detail(session, asset_id) /\ response' = "ok"
          => \A i \in 1..Len(page') :
                DecliningBalancePage(page'[i])
                => /\ page'[i].book_value # 0
                   /\ page'[i].accumulated + page'[i].book_value - page'[i].purchase_value \in {-1, 0, 1}
                   /\ \A j \in 1..Len(page) :
                         LaterPage(page[j], page'[i]) /\ page[j].months_elapsed < page'[i].months_elapsed
                         => page'[i].book_value < page[j].book_value]_vars

\* C26 amended: the book value on the page is never more than on a page of an
\* earlier month, is never negative and never more than the purchase value,
\* and accumulated + book value is the purchase value to the cent
C26_BookValueNeverIncreases ==
    [][\A session \in Sessions, asset_id \in AssetIds :
          asset_detail(session, asset_id) /\ response' = "ok"
          => \A i \in 1..Len(page') :
                DecliningBalancePage(page'[i])
                => /\ page'[i].book_value >= 0
                   /\ page'[i].book_value <= page'[i].purchase_value
                   /\ page'[i].accumulated + page'[i].book_value - page'[i].purchase_value \in {-1, 0, 1}
                   /\ \A j \in 1..Len(page) :
                         LaterPage(page[j], page'[i])
                         => page'[i].book_value <= page[j].book_value]_vars

\* an asset of 0.01 five months after its purchase: the book value shown is 0.00
C26_Witness ==
    /\ page # <<>>
    /\ page[1].dep_method = "Declining Balance"
    /\ page[1].purchase_value = 1
    /\ page[1].useful_life_months = 1
    /\ page[1].months_elapsed = 5
    /\ page[1].book_value = 0
    /\ page[1].accumulated = 1

\* C27: a request without a session user to asset_new, asset_edit,
\* update_life, location_add, transaction_add, transaction_submit,
\* approve_asset or approve_transaction changes no row of any table and sends
\* no notification
C27_NoSessionNoChange ==
    [][\A asset_id \in AllIds, aid \in Ids(assets) \cup Unknown(assets),
         tid \in Ids(sales_disposal) \cup Unknown(sales_disposal) :
          (\/ \E f \in AssetForms, send_approval \in BOOLEAN : asset_new(NoUser, asset_id, f, send_approval)
           \/ \E f \in AssetForms : asset_edit(NoUser, asset_id, f)
           \/ \E input \in LifeInputs \cup {2} : update_life(NoUser, asset_id, input)
           \/ \E f \in LocationForms : location_add(NoUser, asset_id, f)
           \/ \E f \in TxForms : transaction_add(NoUser, asset_id, f)
           \/ transaction_submit(NoUser, tid)
           \/ \E action \in Actions, reason \in Reasons : approve_asset(NoUser, aid, action, reason)
           \/ \E action \in Actions, reason \in Reasons : approve_transaction(NoUser, tid, action, reason))
          => /\ UNCHANGED <<assets, location_history, sales_disposal>>
             /\ UNCHANGED emails]_vars

\* a request without a session user was turned away while a new asset waits
\* for its approval, the seeded asset has a location and a sale is on record
C27_Witness ==
    /\ response = "login"
    /\ \E i \in Ids(assets) : assets[i].approval_status = "pending"
    /\ location_history # <<>>
    /\ sales_disposal # <<>>

\* C28: asset_edit, update_life, location_add, transaction_add,
\* transaction_submit and approve_transaction leave the asset_id and the
\* approval_status of every asset as they are, and add and remove no asset:
\* an asset leaves pending or rejected through none of them
C28_OnlyApproveAssetDecides ==
    [][LET Kept == /\ Len(assets') = Len(assets)
                   /\ \A i \in Ids(assets) :
                         /\ assets'[i].asset_id = assets[i].asset_id
                         /\ assets'[i].approval_status = assets[i].approval_status
       IN  /\ \A session \in Sessions, asset_id \in AllIds :
                 (\/ \E f \in AssetForms : asset_edit(session, asset_id, f)
                  \/ \E input \in LifeInputs \cup {2} : update_life(session, asset_id, input)
                  \/ \E f \in LocationForms : location_add(session, asset_id, f)
                  \/ \E f \in TxForms : transaction_add(session, asset_id, f))
                 => Kept
           /\ \A session \in Sessions, tid \in Ids(sales_disposal) \cup Unknown(sales_disposal) :
                 (\/ transaction_submit(session, tid)
                  \/ \E action \in Actions, reason \in Reasons :
                        approve_transaction(session, tid, action, reason))
                 => Kept]_vars

\* the new asset still waits for its approval after it was relocated and
\* the approval of its sale made it Sold
C28_Witness ==
    \E i \in Ids(assets) :
        /\ assets[i].asset_id = "DU-002"
        /\ assets[i].approval_status = "pending"
        /\ assets[i].status = "Sold"
        /\ \E k \in Ids(location_history) : location_history[k].asset_id = "DU-002"
        /\ \E tid \in Ids(sales_disposal) :
              /\ sales_disposal[tid].asset_id = "DU-002"
              /\ sales_disposal[tid].approval_status = "approved"

====
